---- MODULE Spec2Model ----
(***************************************************************************)
(* Model of the price-time priority limit order book of                   *)
(* src/order_book.py (class LimitOrderBook).                               *)
(*                                                                         *)
(* An Order is a record [id, side, type, price, quantity]; a book side is  *)
(* a sequence of Orders whose head is Python's index 0.  An execution      *)
(* report is a record [order_id, side, filled_qty, price, status]; the     *)
(* symbol (one book has one symbol) and the wall-clock timestamp of a      *)
(* report are not modelled.                                                *)
(*                                                                         *)
(* add_order is synchronous and has no suspension point, so one call is    *)
(* one action.  The loops of _match_limit, _execute_market and             *)
(* _insert_resting are recursive operators that take one step per loop     *)
(* iteration.  Besides the reports, each iteration of a matching loop      *)
(* logs the values of the loop's locals (the fill log), so that            *)
(* statements about single fill events can be written down.                *)
(***************************************************************************)
EXTENDS Integers, Sequences, FiniteSets, TLC

\* ---------------------------------------------------------------- bounds
\* number of add_order calls in one behaviour
MaxOrders == 3
\* limit prices are 1..MaxPrice
MaxPrice == 2
\* submitted quantities are 1..MaxQty
MaxQty == 2

\* unvalidated quantities go down to -MaxNeg
MaxNeg == 1

\* the price of an order that has none (Python's None; market orders)
NoPrice == 0

Sides == {"buy", "sell"}
\* "stop" stands for every type string that is neither "market" nor "limit"
Types == {"market", "limit", "stop"}
Prices == 1..MaxPrice
Quantities == 1..MaxQty

VARIABLES
    bids,      \* self.bids: resting buy orders, head first
    asks,      \* self.asks: resting sell orders, head first
    nextId,    \* the id the caller gives to the next order (arrival number)
    incoming,  \* the order of the last call as the caller passed it in
    order,     \* the same order object when the call returned (quantity mutated)
    reports,   \* the list the last call returned
    fills,     \* fill log of the last call: one entry per loop iteration
    bids0,     \* self.bids when the last call started
    asks0,     \* self.asks when the last call started
    submitted, \* caller's ledger: sum of the quantities of all orders passed in
    reported,  \* caller's ledger: sum of filled_qty over all reports returned so far
    discarded  \* caller's ledger: sum of the quantity left on returned market orders

vars == <<bids, asks, nextId, incoming, order, reports, fills, bids0, asks0,
          submitted, reported, discarded>>

\* ------------------------------------------------------------ helpers
Min(a, b) == IF a <= b THEN a ELSE b

\* list.pop(0)
pop0(s) == Tail(s)

\* list.insert(idx, x), idx counted from 0 as in Python
list_insert(s, idx, x) == SubSeq(s, 1, idx) \o <<x>> \o SubSeq(s, idx + 1, Len(s))

\* the order object before any call was made
NoOrder == [id |-> 0, side |-> "buy", type |-> "limit", price |-> NoPrice, quantity |-> 0]

\* ------------------------------------------------- fill mechanics (shared)
\* a loop that matches against the tail of the opposite side
best_of_last(opp) == opp[Len(opp)]

\* best = opposite[0]
best_of(opp) == Head(opp)

\* fill_qty = min(order.quantity, best.quantity)
fill_qty_taker_only(o, best) == o.quantity

\* a fill of the larger of the two remaining quantities
fill_qty_max(o, best) == IF o.quantity >= best.quantity THEN o.quantity ELSE best.quantity

\* a fill of one unit per iteration
fill_qty_one(o, best) == 1

fill_qty(o, best) == Min(o.quantity, best.quantity)

\* trade_price = best.price
trade_price_taker(o, best) == IF o.price = NoPrice THEN best.price ELSE o.price

trade_price(o, best) == best.price

\* a taker status that is never promoted to "filled"
limit_taker_status_never_filled(qty_after) == "partial_fill"

\* "filled" if (order.quantity - fill_qty) == 0 else "partial_fill"
limit_taker_status(qty_after) == IF qty_after = 0 THEN "filled" ELSE "partial_fill"

\* a maker status that reports every touched maker as "filled"
maker_status_always_filled(qty_after) == "filled"

\* "filled" if best.quantity == 0 else "partial_fill"   (maker report, both loops)
maker_status(qty_after) == IF qty_after = 0 THEN "filled" ELSE "partial_fill"

\* market_status: "filled" if the order is exhausted or this fill consumed the
\* last resting order (len(opposite) is read before the pop)
market_status_own_remainder(order_qty, best_qty, opp_len) ==
    IF order_qty = 0 THEN "filled" ELSE "partial_fill"

\* len(opposite) read after the pop in place of before it
market_status_len_after_pop(order_qty, best_qty, opp_len) ==
    IF order_qty = 0 \/ (best_qty = 0 /\ opp_len - 1 = 1) THEN "filled" ELSE "partial_fill"

\* a status that is "filled" whenever the fill exhausted the maker
market_status_any_exhausted(order_qty, best_qty, opp_len) ==
    IF order_qty = 0 \/ best_qty = 0 THEN "filled" ELSE "partial_fill"

market_status(order_qty, best_qty, opp_len) ==
    IF order_qty = 0 \/ (best_qty = 0 /\ opp_len = 1) THEN "filled" ELSE "partial_fill"

\* the two breaks of _match_limit: TRUE when the head is price-compatible
price_ok_always(o, best) == TRUE

price_ok_strict(o, best) ==
    /\ ~(o.side = "buy" /\ best.price >= o.price)
    /\ ~(o.side = "sell" /\ best.price <= o.price)

price_ok(o, best) ==
    /\ ~(o.side = "buy" /\ best.price > o.price)
    /\ ~(o.side = "sell" /\ best.price < o.price)

\* a loop that pops the head after every fill
remove_filled_always(opp, best_qty) == pop0(opp)

\* a partly filled head that is moved to the back of the list
remove_filled_requeue(opp, best_qty) ==
    IF best_qty = 0 THEN pop0(opp)
    ELSE Tail(opp) \o <<[Head(opp) EXCEPT !.quantity = best_qty]>>

\* if best.quantity == 0: opposite.pop(0)
remove_filled(opp, best_qty) ==
    IF best_qty = 0 THEN pop0(opp)
    ELSE <<[Head(opp) EXCEPT !.quantity = best_qty]>> \o Tail(opp)

report(o, qty, px, status) ==
    [order_id |-> o.id, side |-> o.side, filled_qty |-> qty, price |-> px, status |-> status]

\* a loop that appends the resting order's report first
report_pair_maker_first(taker_rep, maker_rep) == <<maker_rep, taker_rep>>

\* reports.append(<incoming order's report>); reports.append(<resting order's report>)
report_pair(taker_rep, maker_rep) == <<taker_rep, maker_rep>>

\* one entry of the fill log: the locals of one loop iteration
fill_entry(o, best, qty, order_after, best_after, opp_len) ==
    [taker |-> o.id, maker |-> best.id, maker_price |-> best.price,
     taker_before |-> o.quantity, maker_before |-> best.quantity,
     fill_qty |-> qty,
     taker_after |-> order_after, maker_after |-> best_after,
     opp_len |-> opp_len]

\* the state of a matching loop
loop_state(o, opp, reps, log) == [order |-> o, opposite |-> opp, reports |-> reps, fills |-> log]

\* ------------------------------------------------------------ _match_limit
\* one iteration of the while loop, after the price test passed
match_limit_body(s) ==
    LET o == s.order
        best == best_of(s.opposite)
        qty == fill_qty(o, best)
        px == trade_price(o, best)
        order_after == o.quantity - qty
        best_after == best.quantity - qty
    IN  loop_state([o EXCEPT !.quantity = order_after],
                   remove_filled(s.opposite, best_after),
                   s.reports \o report_pair(
                                   report(o, qty, px, limit_taker_status(o.quantity - qty)),
                                   report(best, qty, px, maker_status(best.quantity - qty))),
                   Append(s.fills, fill_entry(o, best, qty, order_after, best_after,
                                              Len(s.opposite))))

\* a limit order matched against the head only (an if in place of the while)
match_limit_once(s) ==
    IF s.order.quantity > 0 /\ s.opposite # <<>> /\ price_ok(s.order, best_of(s.opposite))
    THEN match_limit_body(s)
    ELSE s

RECURSIVE match_limit_loop(_)
match_limit_loop(s) ==
    IF s.order.quantity > 0 /\ s.opposite # <<>>
    THEN IF price_ok(s.order, best_of(s.opposite))
         THEN match_limit_loop(match_limit_body(s))
         ELSE s
    ELSE s

match_limit(o, opposite) == match_limit_loop(loop_state(o, opposite, <<>>, <<>>))

\* --------------------------------------------------------- _execute_market
execute_market_body(s) ==
    LET o == s.order
        best == best_of(s.opposite)
        qty == fill_qty(o, best)
        px == trade_price(o, best)
        order_after == o.quantity - qty
        best_after == best.quantity - qty
    IN  loop_state([o EXCEPT !.quantity = order_after],
                   remove_filled(s.opposite, best_after),
                   s.reports \o report_pair(
                                   report(o, qty, px,
                                          market_status(order_after, best_after, Len(s.opposite))),
                                   report(best, qty, px, maker_status(best_after))),
                   Append(s.fills, fill_entry(o, best, qty, order_after, best_after,
                                              Len(s.opposite))))

\* a market order matched against the head only (an if in place of the while)
execute_market_once(s) ==
    IF s.order.quantity > 0 /\ s.opposite # <<>> THEN execute_market_body(s) ELSE s

RECURSIVE execute_market_loop(_)
execute_market_loop(s) ==
    IF s.order.quantity > 0 /\ s.opposite # <<>>
    THEN execute_market_loop(execute_market_body(s))
    ELSE s

execute_market(o, opposite) == execute_market_loop(loop_state(o, opposite, <<>>, <<>>))

\* --------------------------------------------------------- _insert_resting
\* a scan that advances past the worse prices instead of the better ones
better_price_reversed(o, resting) ==
    IF o.side = "buy" THEN resting.price < o.price ELSE resting.price > o.price

\* strictly better price: the outer loop advances past it
better_price(o, resting) ==
    IF o.side = "buy" THEN resting.price > o.price ELSE resting.price < o.price

\* a scan that does not go past the orders at the same price
no_skip_same_price(book, o, idx) == idx

\* inner loop: while idx < len(book) and book[idx].price == order.price: idx += 1
RECURSIVE skip_same_price(_, _, _)
skip_same_price(book, o, idx) ==
    IF idx < Len(book) /\ book[idx + 1].price = o.price
    THEN skip_same_price(book, o, idx + 1)
    ELSE idx

\* outer loop: while idx < len(book)
RECURSIVE insert_index_from(_, _, _)
insert_index_from(book, o, idx) ==
    IF idx < Len(book)
    THEN IF better_price(o, book[idx + 1])
         THEN insert_index_from(book, o, idx + 1)
         ELSE skip_same_price(book, o, idx)
    ELSE idx

\* an insertion that always appends at the back of the side
insert_index_append(book, o) == Len(book)

insert_index(book, o) == insert_index_from(book, o, 0)

insert_resting(book, o) == list_insert(book, insert_index(book, o), o)

\* --------------------------------------------------------------- add_order
\* an insertion into the other side's list
book_of_swapped(o) == IF o.side = "buy" THEN asks ELSE bids

\* book = self.bids if order.side == "buy" else self.asks
book_of(o) == IF o.side = "buy" THEN bids ELSE asks

\* a match against the order's own side
opposite_of_own(o) == IF o.side = "buy" THEN bids ELSE asks

\* opposite = self.asks if order.side == "buy" else self.bids
opposite_of(o) == IF o.side = "buy" THEN asks ELSE bids

\* if order.quantity > 0: self._insert_resting(order)
rests_always(o) == TRUE

\* a truthiness test (if order.quantity:) in place of the comparison
rests_nonzero(o) == o.quantity # 0

\* a limit branch that drops the unmatched remainder
rests_never(o) == FALSE

rests(o) == o.quantity > 0

\* the market branch never inserts
market_rests_remainder(o) == o.quantity > 0

market_rests(o) == FALSE

\* a stop order that lies dormant (waits for a trigger) and is not matched
stop_match_dormant(o, opposite) == loop_state(o, opposite, <<>>, <<>>)

\* else-branch: reports += self._match_limit(order)
stop_match(o, opposite) == match_limit(o, opposite)

\* else-branch: if order.quantity > 0: self._insert_resting(order)
stop_rests(o) == o.quantity > 0

\* what one call does to the book in its current state: the two sides, the
\* order object, the returned reports and the fill log when it returns
add_order_result(o) ==
    LET s == IF o.type = "market"
             THEN execute_market(o, opposite_of(o))
             ELSE IF o.type = "limit"
                  THEN match_limit(o, opposite_of(o))
                  \* stop orders and every other type string
                  ELSE stop_match(o, opposite_of(o))
        own == book_of(o)
        inserted == IF o.type = "market"
                    THEN market_rests(s.order)
                    ELSE IF o.type = "limit" THEN rests(s.order) ELSE stop_rests(s.order)
        own_after == IF inserted THEN insert_resting(own, s.order) ELSE own
    IN  [bids |-> (IF o.side = "buy" THEN own_after ELSE s.opposite),
         asks |-> (IF o.side = "buy" THEN s.opposite ELSE own_after),
         order |-> s.order,
         reports |-> s.reports,
         fills |-> s.fills]

add_order(o) ==
    LET r == add_order_result(o)
    IN  /\ bids' = r.bids
        /\ asks' = r.asks
        /\ incoming' = o
        /\ order' = r.order
        /\ reports' = r.reports
        /\ fills' = r.fills
        /\ bids0' = bids
        /\ asks0' = asks

\* sum of filled_qty over the first k reports of a returned list
RECURSIVE sum_filled_qty(_, _)
sum_filled_qty(reps, k) ==
    IF k = 0 THEN 0 ELSE sum_filled_qty(reps, k - 1) + reps[k].filled_qty

\* the caller adds one returned call to its ledger
book_keeping(o) ==
    /\ submitted' = submitted + o.quantity
    /\ reported' = reported + sum_filled_qty(reports', Len(reports'))
    /\ discarded' = discarded + (IF o.type = "market" THEN order' .quantity ELSE 0)

\* the orders a caller submits: quantity > 0, a price for limit and stop orders
NewOrders ==
    { [id |-> nextId, side |-> sd, type |-> ty, price |-> px, quantity |-> q] :
        sd \in Sides, ty \in Types, px \in Prices \cup {NoPrice}, q \in Quantities }

ValidOrder(o) == (o.type = "market") <=> (o.price = NoPrice)

Init ==
    /\ bids = <<>>
    /\ asks = <<>>
    /\ nextId = 1
    /\ incoming = NoOrder
    /\ order = NoOrder
    /\ reports = <<>>
    /\ fills = <<>>
    /\ bids0 = <<>>
    /\ asks0 = <<>>
    /\ submitted = 0
    /\ reported = 0
    /\ discarded = 0

Submit ==
    /\ nextId <= MaxOrders
    /\ \E o \in NewOrders :
        /\ ValidOrder(o)
        /\ add_order(o)
        /\ book_keeping(o)
    /\ nextId' = nextId + 1

Next == Submit

Spec == Init /\ [][Next]_vars

\* ------------------------------------------- callers that validate nothing
\* add_order checks neither sign nor size of the quantity: the orders of a
\* caller that may pass a quantity <= 0
AnyQuantities == (0 - MaxNeg)..MaxQty

AnyOrders ==
    { [id |-> nextId, side |-> sd, type |-> ty, price |-> px, quantity |-> q] :
        sd \in Sides, ty \in Types, px \in Prices \cup {NoPrice}, q \in AnyQuantities }

SubmitAny ==
    /\ nextId <= MaxOrders
    /\ \E o \in AnyOrders :
        /\ ValidOrder(o)
        /\ add_order(o)
        /\ book_keeping(o)
    /\ nextId' = nextId + 1

NextAny == SubmitAny

SpecAny == Init /\ [][NextAny]_vars

\* ------------------------------------------------ views of the last call
\* the opposite side of the last call's order, before and after the call
opp0 == IF incoming.side = "buy" THEN asks0 ELSE bids0
opp1 == IF incoming.side = "buy" THEN asks ELSE bids
\* its own side, before and after the call
own0 == IF incoming.side = "buy" THEN bids0 ELSE asks0
own1 == IF incoming.side = "buy" THEN bids ELSE asks

called == incoming.id # 0

ids_of(book) == { book[i].id : i \in 1..Len(book) }

\* remaining quantity of order id in a side, 0 when it is not there
qty_in(book, id) ==
    IF id \in ids_of(book)
    THEN (CHOOSE x \in { book[i] : i \in 1..Len(book) } : x.id = id).quantity
    ELSE 0

\* the taker and the maker report of the i-th fill of the last call
taker_report(i) == reports[2 * i - 1]
maker_report(i) == reports[2 * i]

\* ------------------------------------------------------------------- C1
\* C1: no-cross postcondition: after every add_order call, no resting bid
\* price is >= any resting ask price; in particular when both sides are
\* non-empty the best bid is strictly below the best ask.
C1_NoCross ==
    /\ (bids # <<>> /\ asks # <<>>) => bids[1].price < asks[1].price
    /\ \A i \in 1..Len(bids) : \A j \in 1..Len(asks) : bids[i].price < asks[j].price

\* a call that matched and left both sides non-empty
C1_Witness ==
    /\ bids # <<>> /\ asks # <<>>
    /\ fills # <<>>
    /\ order.quantity > 0
    /\ incoming.type = "limit"

\* ------------------------------------------------------------------- C2
\* C2: priority invariant: of two resting orders on one side, the one in
\* front has the strictly better price, or the same price and the earlier
\* arrival (ids are arrival numbers).
C2_Priority ==
    /\ \A i, j \in 1..Len(bids) : i < j =>
          \/ bids[i].price > bids[j].price
          \/ (bids[i].price = bids[j].price /\ bids[i].id < bids[j].id)
    /\ \A i, j \in 1..Len(asks) : i < j =>
          \/ asks[i].price < asks[j].price
          \/ (asks[i].price = asks[j].price /\ asks[i].id < asks[j].id)

\* a side with three orders, two of them at one price, the last one inserted
\* between other orders
C2_Witness ==
    \E book \in {bids, asks} :
        /\ Len(book) = 3
        /\ \E i \in 1..2 : book[i].price = book[i + 1].price
        /\ \E i \in 1..2 : book[i].price # book[i + 1].price
        /\ book[3].id # incoming.id

\* ------------------------------------------------------------------- C3
\* C3: every resting order has remaining quantity > 0: a maker that a fill
\* brings to 0 is gone from the head in that very iteration (the next
\* iteration meets another maker, and it is not in the book afterwards), and
\* the incoming order is not inserted with quantity <= 0.
C3_PositiveResting ==
    /\ \A i \in 1..Len(bids) : bids[i].quantity > 0
    /\ \A i \in 1..Len(asks) : asks[i].quantity > 0
    /\ \A k \in 1..Len(fills) : fills[k].maker_after = 0 =>
          /\ fills[k].maker \notin ids_of(bids) \cup ids_of(asks)
          /\ k < Len(fills) => fills[k + 1].maker # fills[k].maker
    /\ (called /\ order.quantity <= 0) => order.id \notin ids_of(bids) \cup ids_of(asks)

\* a limit order that consumed two makers completely and was itself used up
C3_Witness ==
    /\ incoming.type # "market"
    /\ Len(fills) = 2
    /\ fills[1].maker_after = 0
    /\ fills[2].maker_after = 0
    /\ order.quantity = 0

\* ------------------------------------------------------------------- C4
\* C4: a market order never rests: after its call it is in neither side,
\* whatever the fill outcome, and no order of type market is ever in the book.
C4_MarketNeverRests ==
    /\ (called /\ incoming.type = "market") =>
          /\ incoming.id \notin ids_of(bids) \cup ids_of(asks)
          /\ own1 = own0
    /\ \A i \in 1..Len(bids) : bids[i].type # "market"
    /\ \A i \in 1..Len(asks) : asks[i].type # "market"

\* a market order that swept the opposite side and kept an unfilled remainder
C4_Witness ==
    /\ incoming.type = "market"
    /\ fills # <<>>
    /\ order.quantity > 0
    /\ own0 # <<>>

\* ------------------------------------------------------------------- C5
\* C5: quantity conservation per fill event: filled_qty is the minimum of
\* the taker's and the maker's remaining quantity before the fill, both
\* decrease by exactly filled_qty, and both reports carry that filled_qty.
C5_Conservation ==
    /\ Len(reports) = 2 * Len(fills)
    /\ \A k \in 1..Len(fills) :
          LET f == fills[k] IN
          /\ f.fill_qty = Min(f.taker_before, f.maker_before)
          /\ f.taker_before - f.taker_after = f.fill_qty
          /\ f.maker_before - f.maker_after = f.fill_qty
          /\ taker_report(k).filled_qty = f.fill_qty
          /\ maker_report(k).filled_qty = f.fill_qty
          \* the quantities chain from the submitted quantity to the returned one
          /\ f.taker_before = (IF k = 1 THEN incoming.quantity ELSE fills[k - 1].taker_after)
          /\ f.maker_before = opp0[k].quantity
    /\ fills # <<>> => order.quantity = fills[Len(fills)].taker_after
    /\ (fills # <<>> /\ fills[Len(fills)].maker_after > 0) =>
          opp1[1].quantity = fills[Len(fills)].maker_after

\* two fills: the maker is the smaller side in the first, the taker in the second
C5_Witness ==
    /\ Len(fills) = 2
    /\ fills[1].maker_before < fills[1].taker_before
    /\ fills[2].taker_before < fills[2].maker_before

\* ------------------------------------------------------------------- C6
\* C6: price-time priority in matching: the makers filled by a call are a
\* prefix of the opposite side as it stood before the call, in sequence
\* order; every maker but the last filled one is used up; the orders behind
\* the last filled maker are unchanged.
C6_PrefixMatching ==
    LET n == Len(fills) IN
    /\ n <= Len(opp0)
    /\ \A k \in 1..n :
          /\ fills[k].maker = opp0[k].id
          /\ maker_report(k).order_id = opp0[k].id
          /\ k < n => fills[k].maker_after = 0
    /\ n > 0 =>
          IF fills[n].maker_after = 0
          THEN opp1 = SubSeq(opp0, n + 1, Len(opp0))
          ELSE /\ Len(opp1) = Len(opp0) - n + 1
               /\ opp1[1] = [opp0[n] EXCEPT !.quantity = fills[n].maker_after]
               /\ Tail(opp1) = SubSeq(opp0, n + 1, Len(opp0))
    /\ n = 0 => opp1 = opp0

\* the head maker filled at a price the second one shares, the second left alone
C6_Witness ==
    /\ Len(fills) = 1
    /\ Len(opp0) = 2
    /\ opp0[1].price = opp0[2].price
    /\ order.quantity = 0

\* ------------------------------------------------------------------- C7
\* C7: FIFO at equal price: when O1 and then O2 rest on one side at one
\* price, a later call fills O2 only if it leaves nothing of O1.
C7_FifoSide(book, book1) ==
    \A i, j \in 1..Len(book) :
        (/\ book[i].price = book[j].price
         /\ book[i].id < book[j].id
         /\ qty_in(book1, book[j].id) < book[j].quantity)
        => qty_in(book1, book[i].id) = 0

C7_Fifo == [][C7_FifoSide(bids, bids') /\ C7_FifoSide(asks, asks')]_vars

\* O1 and O2 at one price; the call used up O1 and filled part of O2
C7_Witness ==
    /\ Len(fills) = 2
    /\ Len(opp0) >= 2
    /\ opp0[1].price = opp0[2].price
    /\ opp0[1].id < opp0[2].id
    /\ fills[1].maker = opp0[1].id /\ fills[1].maker_after = 0
    /\ fills[2].maker = opp0[2].id /\ fills[2].maker_after > 0

\* ------------------------------------------------------------------- C8
\* C8: the trade price is the maker's price: both reports of every fill
\* carry the resting order's price, whatever the incoming order's price.
C8_MakerPrice ==
    \A k \in 1..Len(fills) :
        /\ taker_report(k).price = fills[k].maker_price
        /\ maker_report(k).price = fills[k].maker_price
        /\ k <= Len(opp0) => fills[k].maker_price = opp0[k].price

\* a limit taker filled at a price other than its own
C8_Witness ==
    /\ incoming.type # "market"
    /\ fills # <<>>
    /\ taker_report(1).price # incoming.price

\* ------------------------------------------------------------------- C9
\* C9: limit-price protection: a limit or stop buy is filled only at ask
\* prices <= its limit and a sell only at bid prices >= its limit; matching
\* stops at the first opposite head that fails the test, and that head and
\* everything behind it are unchanged.
compatible(o, px) == IF o.side = "buy" THEN px <= o.price ELSE px >= o.price

\* index in opp0 of the first order with an incompatible price, else Len + 1
first_incompatible ==
    LET bad == { i \in 1..Len(opp0) : ~compatible(incoming, opp0[i].price) }
    IN  IF bad = {} THEN Len(opp0) + 1 ELSE CHOOSE i \in bad : \A j \in bad : i <= j

C9_LimitProtection ==
    (called /\ incoming.type # "market") =>
        /\ \A k \in 1..Len(fills) : compatible(incoming, taker_report(k).price)
        /\ Len(fills) < first_incompatible
        /\ Len(opp1) >= Len(opp0) - first_incompatible + 1
        /\ SubSeq(opp1, Len(opp1) - (Len(opp0) - first_incompatible), Len(opp1))
              = SubSeq(opp0, first_incompatible, Len(opp0))

\* a limit order stopped by an incompatible head with quantity left, after a fill
C9_Witness ==
    /\ incoming.type # "market"
    /\ fills # <<>>
    /\ order.quantity > 0
    /\ first_incompatible <= Len(opp0)

\* ------------------------------------------------------------------ C10
\* C10: market taker status: "filled" exactly when the order's remaining
\* quantity is 0 after the fill, or the fill used up the maker while the
\* opposite side held exactly one order; else "partial_fill".  A market
\* order that sweeps the whole opposite side ends with taker status
\* "filled" even with quantity left.
C10_MarketStatus ==
    (called /\ incoming.type = "market") =>
        /\ \A k \in 1..Len(fills) :
              /\ taker_report(k).status \in {"filled", "partial_fill"}
              /\ taker_report(k).status = "filled" <=>
                    \/ fills[k].taker_after = 0
                    \/ (fills[k].maker_after = 0 /\ Len(opp0) - k + 1 = 1)
        /\ (fills # <<>> /\ opp1 = <<>>) => taker_report(Len(fills)).status = "filled"

\* a market order with quantity left whose last taker report says "filled"
C10_Witness ==
    /\ incoming.type = "market"
    /\ fills # <<>>
    /\ order.quantity > 0
    /\ taker_report(Len(fills)).status = "filled"

\* ------------------------------------------------------------------ C11
\* C11: limit taker status: in _match_limit (limit, stop and other types)
\* the taker report of a fill is "filled" exactly when the incoming order's
\* remaining quantity is 0 after that fill, else "partial_fill"; using up
\* the last resting order with quantity left gives "partial_fill".
C11_LimitStatus ==
    (called /\ incoming.type # "market") =>
        /\ \A k \in 1..Len(fills) :
              /\ taker_report(k).status \in {"filled", "partial_fill"}
              /\ taker_report(k).status = "filled" <=> fills[k].taker_after = 0
        /\ (fills # <<>> /\ opp1 = <<>> /\ order.quantity > 0) =>
              taker_report(Len(fills)).status = "partial_fill"

\* a limit order that emptied the opposite side and has quantity left
C11_Witness ==
    /\ incoming.type # "market"
    /\ fills # <<>>
    /\ fills[Len(fills)].maker_after = 0
    /\ opp1 = <<>>
    /\ order.quantity > 0
    /\ taker_report(Len(fills)).status = "partial_fill"

\* ------------------------------------------------------------------ C12
\* C12: maker status: in every fill of both loops the maker report is
\* "filled" exactly when the resting order's remaining quantity is 0 after
\* the fill, and that order is then gone from the book; else it is
\* "partial_fill" and the order stays at the head of its side.
C12_MakerStatus ==
    \A k \in 1..Len(fills) :
        /\ maker_report(k).status \in {"filled", "partial_fill"}
        /\ maker_report(k).status = "filled" <=> fills[k].maker_after = 0
        /\ maker_report(k).status = "filled" =>
              maker_report(k).order_id \notin ids_of(bids) \cup ids_of(asks)
        /\ maker_report(k).status = "partial_fill" =>
              /\ opp1 # <<>>
              /\ opp1[1].id = maker_report(k).order_id
              /\ opp1[1].quantity = fills[k].maker_after
              /\ opp1[1].quantity > 0

\* a call that used up one maker and left the next one partly filled
C12_Witness ==
    /\ Len(fills) = 2
    /\ maker_report(1).status = "filled"
    /\ maker_report(2).status = "partial_fill"

\* ------------------------------------------------------------------ C13
\* C13: reports come in taker-then-maker pairs: a call with k fills returns
\* 2k reports; the report at (0-based) index 2i carries the incoming
\* order's id and side, the one at index 2i+1 the id and side of the resting
\* order filled by the i-th fill, in fill order.
C13_ReportPairs ==
    /\ Len(reports) = 2 * Len(fills)
    /\ Len(reports) % 2 = 0
    /\ \A k \in 1..Len(fills) :
          /\ reports[2 * (k - 1) + 1].order_id = incoming.id
          /\ reports[2 * (k - 1) + 1].side = incoming.side
          /\ reports[2 * (k - 1) + 2].order_id = fills[k].maker
          /\ reports[2 * (k - 1) + 2].order_id = opp0[k].id
          /\ reports[2 * (k - 1) + 2].side = opp0[k].side
          /\ reports[2 * (k - 1) + 2].order_id # incoming.id

\* a call with two fills: four reports
C13_Witness ==
    /\ Len(fills) = 2
    /\ Len(reports) = 4
    /\ reports[2].order_id # reports[4].order_id

\* ------------------------------------------------------------------ C14
\* the type strings, besides "stop", that are neither "market" nor "limit"
OtherTypes == {"stop", "trailing_stop", "MARKET"}

\* book with the type string of order id replaced by ty
retype(book, id, ty) ==
    [i \in 1..Len(book) |-> IF book[i].id = id THEN [book[i] EXCEPT !.type = ty] ELSE book[i]]

\* the call of order o, made in the state before the step, gives what the
\* step gave, up to the type string ty that the step's order carries
C14_SameAs(o, ty) ==
    LET r == add_order_result(o) IN
    /\ reports' = r.reports
    /\ bids' = retype(r.bids, o.id, ty)
    /\ asks' = retype(r.asks, o.id, ty)
    /\ order' = [r.order EXCEPT !.type = ty]

\* C14: stop and unrecognized order types are processed exactly like limit
\* orders: from every reachable book, for every order, the call with type
\* "stop" (or any other type string that is neither "market" nor "limit")
\* returns the same reports and leaves the same bids and asks as the call
\* with type "limit" (the resting order keeps its own type string).
C14_Step ==
    /\ incoming' .type = "limit" =>
          \A ty \in OtherTypes : C14_SameAs([incoming' EXCEPT !.type = ty], "limit")
    /\ incoming' .type \notin {"market", "limit"} =>
          C14_SameAs([incoming' EXCEPT !.type = "limit"], incoming' .type)

\* C14 as a property of every add_order step
C14_StopAsLimit == [][C14_Step]_vars

\* a stop order that was matched at once, without a trigger, and rested
C14_Witness ==
    /\ incoming.type = "stop"
    /\ fills # <<>>
    /\ order.quantity > 0
    /\ order.id \in ids_of(own1)

\* ------------------------------------------------------------------ C15
\* sum of filled_qty over the taker reports of the first k fills
RECURSIVE taker_filled(_, _)
taker_filled(reps, k) ==
    IF k = 0 THEN 0 ELSE taker_filled(reps, k - 1) + reps[2 * k - 1].filled_qty

\* number of places of a side that hold order id
places(book, id) == Cardinality({ i \in 1..Len(book) : book[i].id = id })

\* C15: the unmatched remainder of a limit or stop order rests: after the
\* call either the order's remaining quantity is 0 and it is in neither
\* side, or it is > 0 and the order is exactly once in the book, on its own
\* side (bids for buy, asks for sell), with quantity = submitted quantity
\* minus the sum of its fills.
C15_RemainderRests ==
    (called /\ incoming.type # "market") =>
        LET filled == taker_filled(reports, Len(fills)) IN
        /\ order.quantity = incoming.quantity - filled
        /\ order.quantity >= 0
        /\ order.quantity = 0 =>
              /\ places(bids, incoming.id) = 0
              /\ places(asks, incoming.id) = 0
        /\ order.quantity > 0 =>
              /\ places(own1, incoming.id) = 1
              /\ places(opp1, incoming.id) = 0
              /\ incoming.side = "buy" => places(bids, incoming.id) = 1
              /\ incoming.side = "sell" => places(asks, incoming.id) = 1
              /\ qty_in(own1, incoming.id) = incoming.quantity - filled
              /\ \E i \in 1..Len(own1) : own1[i] = order

\* a limit order that was partly filled and rests with the remainder
C15_Witness ==
    /\ incoming.type = "limit"
    /\ fills # <<>>
    /\ order.quantity > 0
    /\ order.quantity < incoming.quantity
    /\ places(own1, incoming.id) = 1

\* ------------------------------------------------------------------ C16
\* C16: an empty opposite side is a silent no-op for matching: the call
\* returns no reports; a limit or stop order then rests with its full
\* quantity, a market order vanishes and leaves both sides unchanged.
C16_EmptyOpposite ==
    (called /\ opp0 = <<>>) =>
        /\ reports = <<>>
        /\ fills = <<>>
        /\ opp1 = <<>>
        /\ order.quantity = incoming.quantity
        /\ incoming.type = "market" =>
              /\ bids = bids0
              /\ asks = asks0
              /\ places(bids, incoming.id) = 0
              /\ places(asks, incoming.id) = 0
        /\ incoming.type # "market" =>
              /\ Len(own1) = Len(own0) + 1
              /\ places(own1, incoming.id) = 1
              /\ qty_in(own1, incoming.id) = incoming.quantity
              /\ \A i \in 1..Len(own0) : \E j \in 1..Len(own1) : own1[j] = own0[i]

\* a market order that met an empty opposite side while its own side was not empty
C16_Witness ==
    /\ incoming.type = "market"
    /\ opp0 = <<>>
    /\ own0 # <<>>
    /\ reports = <<>>

\* ------------------------------------------------------------------ C17
\* C17: the remaining quantity of every order is non-increasing and never
\* negative: in every call the incoming order ends with a quantity between 0
\* and the submitted one, every fill lowers taker and maker by a positive
\* amount and leaves both >= 0, and every resting order keeps or lowers its
\* quantity (0 when it leaves the book).
C17_SideStep(book, book1) ==
    \A i \in 1..Len(book) :
        /\ qty_in(book1, book[i].id) <= book[i].quantity
        /\ qty_in(book1, book[i].id) >= 0

C17_CallStep ==
    /\ order' .quantity >= 0
    /\ order' .quantity <= incoming' .quantity
    /\ \A k \in 1..Len(fills') :
          /\ fills'[k].fill_qty > 0
          /\ fills'[k].taker_after >= 0
          /\ fills'[k].maker_after >= 0
          /\ fills'[k].taker_after < fills'[k].taker_before
          /\ fills'[k].maker_after < fills'[k].maker_before
    /\ qty_in(bids', incoming' .id) <= order' .quantity
    /\ qty_in(asks', incoming' .id) <= order' .quantity
    /\ \A i \in 1..Len(bids') : bids'[i].quantity >= 0
    /\ \A i \in 1..Len(asks') : asks'[i].quantity >= 0

C17_Monotone ==
    [][C17_SideStep(bids, bids') /\ C17_SideStep(asks, asks') /\ C17_CallStep]_vars

\* a taker lowered twice (2, 1, 0) in one call whose second maker is lowered and stays
C17_Witness ==
    /\ Len(fills) = 2
    /\ fills[1].taker_before > fills[1].taker_after
    /\ fills[2].taker_before > fills[2].taker_after
    /\ fills[2].taker_after = 0
    /\ fills[2].maker_after > 0
    /\ qty_in(opp1, fills[2].maker) < qty_in(opp0, fills[2].maker)

\* ------------------------------------------------------------------ C18
\* C18: resting-order lifecycle: a resting order stays on its side, with its
\* id, side, type and price, through every call until the call whose fill
\* brings its remaining quantity to 0, and it leaves the book in exactly
\* that call; nothing else removes it.
exhausted_in(log, id) == \E k \in 1..Len(log) : log[k].maker = id /\ log[k].maker_after = 0

C18_SideStep(book, book1, other1, log1) ==
    \A i \in 1..Len(book) :
        LET o == book[i] IN
        /\ o.id \notin ids_of(other1)
        /\ IF exhausted_in(log1, o.id)
           THEN o.id \notin ids_of(book1)
           ELSE /\ places(book1, o.id) = 1
                /\ qty_in(book1, o.id) > 0
                /\ \E j \in 1..Len(book1) :
                      book1[j] = [o EXCEPT !.quantity = qty_in(book1, o.id)]

C18_Lifecycle ==
    [][C18_SideStep(bids, bids', asks', fills') /\ C18_SideStep(asks, asks', bids', fills')]_vars

\* a call that partly filled a resting order (it stays) after using up another (it left)
C18_Witness ==
    /\ Len(fills) = 2
    /\ fills[1].maker_after = 0
    /\ fills[2].maker_after > 0
    /\ fills[1].maker \notin ids_of(opp1)
    /\ fills[2].maker \in ids_of(opp1)

\* ------------------------------------------------------------------ C19
\* total remaining quantity of the first k orders of a side
RECURSIVE depth(_, _)
depth(book, k) == IF k = 0 THEN 0 ELSE depth(book, k - 1) + book[k].quantity

\* C19: market execution sweeps the full depth: a market order of quantity
\* q against an opposite side of total quantity D gets fills that sum to
\* min(q, D), whatever the prices, and on return its remaining quantity is 0
\* or the opposite side is empty.
C19_MarketSweep ==
    (called /\ incoming.type = "market") =>
        LET D == depth(opp0, Len(opp0)) IN
        /\ taker_filled(reports, Len(fills)) = Min(incoming.quantity, D)
        /\ order.quantity = incoming.quantity - Min(incoming.quantity, D)
        /\ order.quantity = 0 \/ opp1 = <<>>
        /\ depth(opp1, Len(opp1)) = D - Min(incoming.quantity, D)

\* a market order filled at two different prices
C19_Witness ==
    /\ incoming.type = "market"
    /\ Len(fills) = 2
    /\ taker_report(1).price # taker_report(2).price
    /\ order.quantity = 0

\* ------------------------------------------------------------------ C20
\* total remaining quantity of the orders of a side whose price is
\* compatible with order o's limit, among the first k
RECURSIVE compatible_depth(_, _, _)
compatible_depth(book, o, k) ==
    IF k = 0 THEN 0
    ELSE compatible_depth(book, o, k - 1)
         + (IF compatible(o, book[k].price) THEN book[k].quantity ELSE 0)

\* C20: limit matching fills as much as possible at prices that satisfy the
\* limit: the fills of a limit or stop order of quantity q sum to min(q, C),
\* C the total remaining quantity of the opposite orders with a compatible
\* price (asks <= p for a buy, bids >= p for a sell) before the call.
C20_LimitFillsMax ==
    (called /\ incoming.type # "market") =>
        LET C == compatible_depth(opp0, incoming, Len(opp0)) IN
        /\ taker_filled(reports, Len(fills)) = Min(incoming.quantity, C)
        /\ compatible_depth(opp1, incoming, Len(opp1)) = C - Min(incoming.quantity, C)

\* a limit order that took all of the compatible quantity and stopped, with
\* quantity left, in front of a maker with an incompatible price
C20_Witness ==
    /\ incoming.type # "market"
    /\ Len(fills) = 1
    /\ Len(opp0) = 2
    /\ ~compatible(incoming, opp0[2].price)
    /\ order.quantity > 0
    /\ taker_filled(reports, 1) = compatible_depth(opp0, incoming, 2)

\* ------------------------------------------------------------------ C21
\* s without its i-th element
without(s, i) == SubSeq(s, 1, i - 1) \o SubSeq(s, i + 1, Len(s))

\* the place of order id in a side that holds it
place_of(book, id) == CHOOSE i \in 1..Len(book) : book[i].id = id

\* the incoming order of the last call rests in the book
rested == called /\ incoming.id \in ids_of(own1)

\* C21: resting insertion position: the inserted order stands right behind
\* every order of its side whose price is strictly better than or equal to
\* its own and right in front of every order whose price is strictly worse;
\* the other orders of the side keep their relative order and quantities.
C21_InsertPosition ==
    rested =>
        LET p == place_of(own1, incoming.id) IN
        /\ without(own1, p) = own0
        /\ \A j \in 1..(p - 1) :
              \/ better_price(incoming, own1[j])
              \/ own1[j].price = incoming.price
        /\ \A j \in (p + 1)..Len(own1) :
              /\ ~better_price(incoming, own1[j])
              /\ own1[j].price # incoming.price

\* an order inserted between an order at its own price and a worse one
C21_Witness ==
    /\ rested
    /\ Len(own0) = 2
    /\ place_of(own1, incoming.id) = 2
    /\ own1[1].price = incoming.price
    /\ own1[3].price # incoming.price

\* ------------------------------------------------------------------ C22
\* C22: every add_order call terminates and fully resolves: the matching
\* loop runs at most as many iterations as the opposite side had resting
\* orders, because each iteration brings the incoming order's remaining
\* quantity to 0 (and is the last) or removes the head of the opposite
\* side; the insertion scan advances at most the length of the target side.
C22_Terminates ==
    called =>
        /\ Len(fills) <= Len(opp0)
        /\ \A k \in 1..Len(fills) :
              /\ fills[k].opp_len = Len(opp0) - (k - 1)
              /\ fills[k].taker_after = 0 \/ fills[k].maker_after = 0
              /\ k < Len(fills) =>
                    /\ fills[k].taker_after > 0
                    /\ fills[k].maker_after = 0
                    /\ fills[k + 1].opp_len = fills[k].opp_len - 1
        /\ Len(opp1) >= Len(opp0) - Len(fills)
        /\ rested => place_of(own1, incoming.id) - 1 <= Len(own0)

\* a call whose loop ran once for every resting order of the opposite side
C22_Witness ==
    /\ Len(opp0) = 2
    /\ Len(fills) = 2
    /\ opp1 = <<>>

\* ------------------------------------------------------------------ C23
\* C23: a market order's shortfall is never signalled by report status:
\* whenever a market call returns a report, its last taker report says
\* "filled", whether or not the order has quantity left; the shortfall
\* shows only in the requested quantity exceeding the sum of filled_qty of
\* the taker reports.
C23_ShortfallSilent ==
    (called /\ incoming.type = "market" /\ reports # <<>>) =>
        /\ taker_report(Len(fills)).status = "filled"
        /\ reports[Len(reports) - 1].status = "filled"
        /\ order.quantity > 0 <=> taker_filled(reports, Len(fills)) < incoming.quantity
        /\ order.quantity = incoming.quantity - taker_filled(reports, Len(fills))

\* an under-filled market order whose only taker report says "filled"
C23_Witness ==
    /\ incoming.type = "market"
    /\ Len(reports) = 2
    /\ reports[1].status = "filled"
    /\ reports[1].filled_qty < incoming.quantity
    /\ order.quantity > 0

\* ------------------------------------------------------------------ C24
\* C24: matching never touches the incoming order's own side: no maker of
\* the call comes from that side; a market order leaves its own side as it
\* was, a limit or stop order changes it by at most one insertion, of
\* itself; the opposite side gains no order.
C24_OwnSideFrame ==
    called =>
        /\ \A k \in 1..Len(fills) :
              /\ fills[k].maker \notin ids_of(own0)
              /\ fills[k].maker \in ids_of(opp0)
        /\ incoming.type = "market" => own1 = own0
        /\ incoming.type # "market" =>
              \/ own1 = own0
              \/ /\ Len(own1) = Len(own0) + 1
                 /\ rested
                 /\ without(own1, place_of(own1, incoming.id)) = own0
        /\ ids_of(opp1) \subseteq ids_of(opp0)
        /\ incoming.side = "buy" => ids_of(bids0) \subseteq ids_of(bids)
        /\ incoming.side = "sell" => ids_of(asks0) \subseteq ids_of(asks)

\* a buy order that was matched against the asks and then inserted among the bids
C24_Witness ==
    /\ incoming.side = "buy"
    /\ incoming.type # "market"
    /\ fills # <<>>
    /\ bids0 # <<>>
    /\ Len(bids) = Len(bids0) + 1
    /\ asks # asks0

\* ------------------------------------------------------------------ C25
\* C25: global quantity accounting: after any sequence of calls on an
\* initially empty book, the sum of the submitted quantities equals the
\* quantity resting in bids and asks, plus the sum of filled_qty over all
\* reports ever returned (taker and maker reports both counted), plus the
\* remainders discarded from market orders.
C25_Accounting ==
    submitted = depth(bids, Len(bids)) + depth(asks, Len(asks)) + reported + discarded

\* a history with resting quantity, reported fills and a discarded remainder
C25_Witness ==
    /\ depth(bids, Len(bids)) + depth(asks, Len(asks)) > 0
    /\ reported > 0
    /\ discarded > 0

\* ------------------------------------------------------------------ C26
\* C26: the status sequence of one call: a taker report "filled" and a
\* maker report "partial_fill" occur only in the last report pair; in every
\* earlier pair the taker report is "partial_fill" and the maker report is
\* "filled".
C26_StatusSequence ==
    \A k \in 1..Len(fills) :
        /\ taker_report(k).status = "filled" => k = Len(fills)
        /\ maker_report(k).status = "partial_fill" => k = Len(fills)
        /\ k < Len(fills) =>
              /\ taker_report(k).status = "partial_fill"
              /\ maker_report(k).status = "filled"

\* a market call of two pairs: (partial_fill, filled) and then (filled, partial_fill)
C26_Witness ==
    /\ incoming.type = "market"
    /\ Len(fills) = 2
    /\ taker_report(1).status = "partial_fill"
    /\ maker_report(1).status = "filled"
    /\ taker_report(2).status = "filled"
    /\ maker_report(2).status = "partial_fill"

\* ------------------------------------------------------------------ C27
\* C27: sides are homogeneous and every fill pairs a buy with a sell: bids
\* holds only buy orders and asks only sell orders, so in every report pair
\* the taker's side and the maker's side are opposite.
C27_Homogeneous ==
    /\ \A i \in 1..Len(bids) : bids[i].side = "buy"
    /\ \A i \in 1..Len(asks) : asks[i].side = "sell"
    /\ \A k \in 1..Len(fills) :
          /\ taker_report(k).side = incoming.side
          /\ {taker_report(k).side, maker_report(k).side} = {"buy", "sell"}

\* both sides hold orders after a sell order traded with a bid and rested
C27_Witness ==
    /\ incoming.side = "sell"
    /\ fills # <<>>
    /\ maker_report(1).side = "buy"
    /\ bids # <<>>
    /\ asks # <<>>

\* ------------------------------------------------------------------ C28
\* C28: an order submitted with quantity <= 0 is silently dropped: the call
\* of a market, limit or stop order with quantity <= 0 returns no reports,
\* leaves bids and asks unchanged, and the order does not rest in the book.
C28_NonPositiveDropped ==
    (called /\ incoming.quantity <= 0) =>
        /\ reports = <<>>
        /\ fills = <<>>
        /\ bids = bids0
        /\ asks = asks0
        /\ incoming.id \notin ids_of(bids) \cup ids_of(asks)
        /\ order = incoming

\* a limit order of negative quantity priced to trade with the resting head
C28_Witness ==
    /\ incoming.type = "limit"
    /\ incoming.quantity < 0
    /\ opp0 # <<>>
    /\ compatible(incoming, opp0[1].price)
    /\ own0 # <<>>

\* ------------------------------------------------------------------ C29
\* C29: within one add_order call the fill prices worsen monotonically for
\* the taker: the prices of successive fills are non-decreasing for a buy
\* taker and non-increasing for a sell taker, market and limit/stop alike.
C29_PricesWorsen ==
    \A k \in 1..(Len(fills) - 1) :
        IF incoming.side = "buy"
        THEN taker_report(k).price <= taker_report(k + 1).price
        ELSE taker_report(k).price >= taker_report(k + 1).price

\* a sell order filled twice, the second fill at a strictly lower price
C29_Witness ==
    /\ incoming.side = "sell"
    /\ Len(fills) = 2
    /\ taker_report(2).price < taker_report(1).price

\* ------------------------------------------------------------------ C30
\* C30: time priority is stable: two orders resting on the same side keep
\* their relative position in that side's sequence over every add_order
\* call after which both are still in the book.
stable(book, book_after) ==
    \A i, j \in 1..Len(book) :
        (/\ i < j
         /\ book[i].id \in ids_of(book_after)
         /\ book[j].id \in ids_of(book_after))
            => place_of(book_after, book[i].id) < place_of(book_after, book[j].id)

C30_Step == stable(bids, bids') /\ stable(asks, asks')

C30_StablePriority == [][C30_Step]_vars

\* the incoming order was inserted between two orders that rested before
\* it and still rest after the call
C30_Witness ==
    /\ rested
    /\ Len(own0) = 2
    /\ Len(own1) = 3
    /\ own1[2].id = incoming.id
    /\ own1[1].id = own0[1].id
    /\ own1[3].id = own0[2].id

\* the head of the opposite side was filled in part and stays ahead of the
\* order behind it
C30_PartialHead ==
    /\ fills # <<>>
    /\ Len(opp0) = 2
    /\ Len(opp1) = 2
    /\ opp1[1].id = opp0[1].id
    /\ opp1[1].quantity < opp0[1].quantity

====
